---- MODULE Spec2Model ----
(***************************************************************************)
(* A model of price.py: the table-to-record extraction (process_data), the *)
(* hospital alias filter (filter_hospitals) and the Streamlit page (main)  *)
(* with its persisted record set.                                          *)
(*                                                                         *)
(* Text.  A Python str is modelled as a sequence of characters.  An ASCII  *)
(* character is the one-character string itself ("#", "B", "\n"); any      *)
(* other character is written "uXXXX", its code point in hexadecimal       *)
(* ("u578B" is 型).  Every literal below is followed by the text it spells. *)
(***************************************************************************)
EXTENDS Integers, Sequences, FiniteSets, TLC

VARIABLES
    fh_labels,        \* filter_hospitals: the list of observed labels passed in
    fh_tier,          \* filter_hospitals: which allow-list is passed ("public" / "manager")
    fh_out,           \* filter_hospitals: the list returned by the latest call, or None
    fh_first,         \* filter_hospitals: the list returned by the first call, or None
    fh_done,          \* filter_hospitals: the kinds of re-call made since the first call
    pd_grid,          \* process_data: the raw grid passed in
    pd_out,           \* process_data: the pair (frame, error) returned, or Pending
    pd_locals,        \* process_data: header_col_idx and products as the call left them
    logged_in,        \* st.session_state.system_logged_in
    db,               \* the content of DB_FILE: NoDb, or the dict {'df', 'updated_at'}
    clock,            \* the minute datetime.now() shows
    data,             \* st.session_state.data
    last_updated,     \* st.session_state.last_updated (0: the empty string)
    is_manager_mode,  \* st.session_state.is_manager_mode
    has_searched,     \* st.session_state.has_searched
    qry_hosp,         \* st.session_state.qry_hosp
    qry_code,         \* st.session_state.qry_code
    qry_key,          \* st.session_state.qry_key
    uploaded,         \* the grid of the file the last event uploaded (<<>>: none)
    notice,           \* what the upload handler reported for it
    view              \* what the last run of main drew

fhVars == <<fh_labels, fh_tier, fh_out, fh_first, fh_done>>
pdVars == <<pd_grid, pd_out, pd_locals>>
uiVars == <<logged_in, db, clock, data, last_updated, is_manager_mode, has_searched,
            qry_hosp, qry_code, qry_key, uploaded, notice, view>>
vars == <<fh_labels, fh_tier, fh_out, fh_first, fh_done, pd_grid, pd_out, pd_locals,
          logged_in, db, clock, data, last_updated, is_manager_mode, has_searched,
          qry_hosp, qry_code, qry_key, uploaded, notice, view>>

------------------------------------------------------------------------------
(* Characters and strings *)

AsciiPrintable ==
    << " ", "!", "\"", "#", "$", "%", "&", "'", "(", ")", "*", "+", ",", "-", ".", "/",
       "0", "1", "2", "3", "4", "5", "6", "7", "8", "9", ":", ";", "<", "=", ">", "?",
       "@", "A", "B", "C", "D", "E", "F", "G", "H", "I", "J", "K", "L", "M", "N", "O",
       "P", "Q", "R", "S", "T", "U", "V", "W", "X", "Y", "Z", "[", "\\", "]", "^", "_",
       "u0060", "a", "b", "c", "d", "e", "f", "g", "h", "i", "j", "k", "l", "m", "n", "o",
       "p", "q", "r", "s", "t", "u", "v", "w", "x", "y", "z", "{", "|", "}", "~" >>

HexDigits ==
    << "0", "1", "2", "3", "4", "5", "6", "7", "8", "9", "A", "B", "C", "D", "E", "F" >>

IndexOf(table, c) == CHOOSE i \in 1..Len(table) : table[i] = c

HexVal(c, i) == IndexOf(HexDigits, SubSeq(c, i, i)) - 1

\* ord(c): the code point of a character.
Ord(c) ==
    IF c = "\t" THEN 9
    ELSE IF c = "\n" THEN 10
    ELSE IF c = "\r" THEN 13
    ELSE IF Len(c) = 1 THEN 31 + IndexOf(AsciiPrintable, c)   \* the grave accent is kept as "u0060" in the table
    ELSE 4096 * HexVal(c, 2) + 256 * HexVal(c, 3) + 16 * HexVal(c, 4) + HexVal(c, 5)

UpperLetters == { AsciiPrintable[i] : i \in 34..59 }
LowerLetters == { AsciiPrintable[i] : i \in 66..91 }
Digits == { AsciiPrintable[i] : i \in 17..26 }

\* str.lower() / str.upper() on one character (only ASCII letters are cased
\* in the alphabets used here).
Lower(c) == IF c \in UpperLetters THEN AsciiPrintable[IndexOf(AsciiPrintable, c) + 32] ELSE c
Upper(c) == IF c \in LowerLetters THEN AsciiPrintable[IndexOf(AsciiPrintable, c) - 32] ELSE c

LowerStr(s) == [i \in 1..Len(s) |-> Lower(s[i])]
UpperStr(s) == [i \in 1..Len(s) |-> Upper(s[i])]

\* [a-zA-Z0-9]
IsAlnum(c) == c \in UpperLetters \cup LowerLetters \cup Digits
\* str.isdigit() / \d on the ASCII digits
IsDigit(c) == c \in Digits
\* \s and the characters str.strip() / str.split() treat as whitespace
IsSpace(c) == c \in {" ", "\t", "\n", "\r"}

\* Python:  t in s  (substring containment; the empty string is in every string).
Contains(s, t) ==
    \E i \in 1..(Len(s) - Len(t) + 1) : SubSeq(s, i, i + Len(t) - 1) = t

\* s.startswith(t)
StartsWith(s, t) == Len(t) <= Len(s) /\ SubSeq(s, 1, Len(t)) = t

RECURSIVE LStrip(_)
LStrip(s) == IF s # <<>> /\ IsSpace(Head(s)) THEN LStrip(Tail(s)) ELSE s

RECURSIVE RStrip(_)
RStrip(s) == IF s # <<>> /\ IsSpace(s[Len(s)]) THEN RStrip(SubSeq(s, 1, Len(s) - 1)) ELSE s

\* str.strip()
Strip(s) == RStrip(LStrip(s))

\* s.replace(c, '') for a single character c
RemoveChar(s, c) == SelectSeq(s, LAMBDA x : x # c)

\* re.sub(r'[^a-zA-Z0-9]', '', s)
AlnumOnly(s) == SelectSeq(s, IsAlnum)

RECURSIVE Concat(_)
Concat(parts) == IF parts = <<>> THEN <<>> ELSE Head(parts) \o Concat(Tail(parts))

\* sep.join(parts)
RECURSIVE Join(_, _)
Join(parts, sep) ==
    IF parts = <<>> THEN <<>>
    ELSE IF Len(parts) = 1 THEN parts[1]
    ELSE parts[1] \o sep \o Join(Tail(parts), sep)

\* s.split(): the maximal runs of non-whitespace characters, in order.
RECURSIVE SplitFrom(_, _, _)
SplitFrom(s, i, cur) ==
    IF i > Len(s) THEN (IF cur = <<>> THEN <<>> ELSE <<cur>>)
    ELSE IF IsSpace(s[i])
         THEN (IF cur = <<>> THEN <<>> ELSE <<cur>>) \o SplitFrom(s, i + 1, <<>>)
         ELSE SplitFrom(s, i + 1, Append(cur, s[i]))

Split(s) == SplitFrom(s, 1, <<>>)

\* a < b for Python strings: lexicographic by code point.
RECURSIVE StrLess(_, _)
StrLess(a, b) ==
    IF b = <<>> THEN FALSE
    ELSE IF a = <<>> THEN TRUE
    ELSE IF Head(a) = Head(b) THEN StrLess(Tail(a), Tail(b))
    ELSE Ord(Head(a)) < Ord(Head(b))

\* sorted(list(S)) for a set S of strings
RECURSIVE SortedList(_)
SortedList(S) ==
    IF S = {} THEN <<>>
    ELSE LET m == CHOOSE x \in S : \A y \in S \ {x} : StrLess(x, y)
         IN  <<m>> \o SortedList(S \ {m})

Range(seq) == { seq[i] : i \in 1..Len(seq) }

------------------------------------------------------------------------------
(* Configuration: the hospital allow-lists *)

PUBLIC_HOSPITALS ==
    << <<"u6210", "u5927">>,  \* 成大
       <<"u53F0", "u5357", "u5E02", "u7ACB", "(", "u79C0", "u50B3", ")">>,  \* 台南市立(秀傳)
       <<"u9EBB", "u8C46", "u65B0", "u6A13">>,  \* 麻豆新樓
       <<"u81FA", "u5357", "u65B0", "u6A13">>,  \* 臺南新樓
       <<"u5B89", "u5357", "u65B0", "u6A13">>,  \* 安南新樓
       <<"u885B", "u751F", "u798F", "u5229", "u90E8", "u65B0", "u71DF", "u91AB", "u9662">>,  \* 衛生福利部新營醫院
       <<"u885B", "u751F", "u798F", "u5229", "u90E8", "u5609", "u7FA9", "u91AB", "u9662">>,  \* 衛生福利部嘉義醫院
       <<"u885B", "u751F", "u798F", "u5229", "u90E8", "u81FA", "u5357", "u91AB", "u9662">>,  \* 衛生福利部臺南醫院
       <<"u885B", "u751F", "u798F", "u5229", "u90E8", "u6F8E", "u6E56", "u91AB", "u9662">>,  \* 衛生福利部澎湖醫院
       <<"u5947", "u7F8E", "u6C38", "u5EB7">>,  \* 奇美永康
       <<"u5947", "u7F8E", "u4F73", "u91CC">>,  \* 奇美佳里
       <<"u5947", "u7F8E", "u67F3", "u71DF">>,  \* 奇美柳營
       <<"u5609", "u57FA">>,  \* 嘉基
       <<"u5609", "u7FA9", "u967D", "u660E">>,  \* 嘉義陽明
       <<"u5609", "u69AE">>,  \* 嘉榮
       <<"u570B", "u8ECD", "u9AD8", "u96C4">>,  \* 國軍高雄
       <<"u570B", "u8ECD", "u9AD8", "u96C4", "u7E3D", "u91AB", "u9662", "u5C4F", "u6771", "u5206", "u9662">>,  \* 國軍高雄總醫院屏東分院
       <<"u570B", "u8ECD", "u9AD8", "u96C4", "u7E3D", "u91AB", "u9662", "u5CA1", "u5C71", "u5206", "u9662">>,  \* 國軍高雄總醫院岡山分院
       <<"u7FA9", "u5927">>,  \* 義大
       <<"u9AD8", "u96C4", "u5927", "u540C", "(", "u9577", "u5E9A", ")">>,  \* 高雄大同(長庚)
       <<"u9AD8", "u96C4", "u5C0F", "u6E2F", "(", "u9AD8", "u91AB", ")">>,  \* 高雄小港(高醫)
       <<"u9AD8", "u96C4", "u5E02", "u7ACB", "u6C11", "u751F", "u91AB", "u9662">>,  \* 高雄市立民生醫院
       <<"u9AD8", "u96C4", "u5E02", "u7ACB", "u806F", "u5408", "u91AB", "u9662">>,  \* 高雄市立聯合醫院
       <<"u9AD8", "u96C4", "u5CA1", "u5C71", "(", "u9AD8", "u91AB", ")">>,  \* 高雄岡山(高醫)
       <<"u9AD8", "u96C4", "u9577", "u5E9A">>,  \* 高雄長庚
       <<"u9AD8", "u91AB">>,  \* 高醫
       <<"u5C4F", "u6771", "u69AE", "u6C11", "u7E3D", "u91AB", "u9662">>,  \* 屏東榮民總醫院
       <<"u5C4F", "u6771", "u5BF6", "u5EFA">>,  \* 屏東寶建
       <<"u5C4F", "u57FA">>,  \* 屏基
       <<"u885B", "u751F", "u798F", "u5229", "u90E8", "u5C4F", "u6771", "u91AB", "u9662">>,  \* 衛生福利部屏東醫院
       <<"u885B", "u751F", "u798F", "u5229", "u90E8", "u6046", "u6625", "u65C5", "u904A", "u91AB", "u9662">>,  \* 衛生福利部恆春旅遊醫院
       <<"u8F14", "u82F1">>,  \* 輔英
       <<"u962E", "u7D9C", "u5408">>,  \* 阮綜合
       <<"u5065", "u4EC1">>,  \* 健仁
       <<"u53F3", "u660C">>,  \* 右昌
       <<"u6771", "u6E2F", "u5B89", "u6CF0">>,  \* 東港安泰
       <<"u90ED", "u7D9C", "u5408">>,  \* 郭綜合
       <<"u4E2D", "u570B", "u5B89", "u5357">> >>  \* 中國安南

MANAGER_HOSPITALS ==
    << <<"u65B0", "u5E97", "u6148", "u6FDF">>,  \* 新店慈濟
       <<"u53F0", "u5317", "u6148", "u6FDF">>,  \* 台北慈濟
       <<"u5167", "u6E56", "u4E09", "u7E3D">>,  \* 內湖三總
       <<"u4E09", "u8ECD", "u7E3D", "u91AB", "u9662">>,  \* 三軍總醫院
       <<"u677E", "u5C71", "u4E09", "u7E3D">>,  \* 松山三總
       <<"u677E", "u5C71", "u5206", "u9662">>,  \* 松山分院
       <<"u570B", "u7ACB", "u967D", "u660E", "u5927", "u5B78">>,  \* 國立陽明大學
       <<"u570B", "u7ACB", "u967D", "u660E", "u4EA4", "u901A", "u5927", "u5B78", "u9644", "u8A2D", "u91AB", "u9662">>,  \* 國立陽明交通大學附設醫院
       <<"u570B", "u7ACB", "u967D", "u660E">>,  \* 國立陽明
       <<"u8F14", "u5927">>,  \* 輔大
       <<"u7F85", "u6771", "u535A", "u611B">>,  \* 羅東博愛
       <<"u885B", "u751F", "u798F", "u5229", "u90E8", "u81FA", "u5317", "u91AB", "u9662">>,  \* 衛生福利部臺北醫院
       <<"u90E8", "u7ACB", "u81FA", "u5317">> >>  \* 部立臺北

ALL_VALID_HOSPITALS == PUBLIC_HOSPITALS \o MANAGER_HOSPITALS

------------------------------------------------------------------------------
(* filter_hospitals *)

ALIAS_ENTRIES ==
    { <<"u570B", "u7ACB", "u967D", "u660E">>,   \* 國立陽明
      <<"u967D", "u660E">>,   \* 陽明
      <<"u967D", "u660E", "u5927", "u5B78">> }   \* 陽明大學

ALIAS_SPELLINGS ==
    { <<"u570B", "u7ACB", "u967D", "u660E">>,   \* 國立陽明
      <<"u967D", "u660E", "u5927", "u5B78">>,   \* 陽明大學
      <<"u967D", "u660E", "u4EA4", "u901A">> }   \* 陽明交通

JOINT_CLINIC == <<"u806F", "u91AB">>   \* 聯醫

HasAliasSpelling(h) == \E a \in ALIAS_SPELLINGS : Contains(h, a)

\* One turn of the inner loop: does entry `allow` append the label h?
\* An alias entry either appends h or moves on to the next entry (continue).
EntryAccepts(allow, h) ==
    IF allow \in ALIAS_ENTRIES
    THEN HasAliasSpelling(h) /\ ~Contains(h, JOINT_CLINIC)
    ELSE allow = h \/ (Len(allow) > 1 /\ Contains(h, allow))

\* The inner loop appends h at the first entry that accepts it and breaks, so
\* h is appended (once) exactly when some entry accepts it.
Filtered(all_hospitals, allow_list) ==
    SelectSeq(all_hospitals,
              LAMBDA h : \E i \in 1..Len(allow_list) : EntryAccepts(allow_list[i], h))

FilterHospitalsUnsorted(all_hospitals, allow_list) == Filtered(all_hospitals, allow_list)

filter_hospitals(all_hospitals, allow_list) ==
    SortedList(Range(Filtered(all_hospitals, allow_list)))

------------------------------------------------------------------------------
(* process_data: the grid, its clean-up and the header and role rows         *)
(*                                                                         *)
(* A raw grid is a sequence of rows of equal length; a cell is a string or  *)
(* NAN, the missing value pandas reads for an empty cell.  Row and column   *)
(* numbers are 0-based as in the source; -1 stands for the source's "not   *)
(* found" (-1 for header_col_idx, None for find_row_index).                 *)

NAN == <<"NaN">>

Min(a, b) == IF a < b THEN a ELSE b
MinOf(S) == CHOOSE x \in S : \A y \in S : x <= y

NRows(df) == Len(df)
NCols(df) == IF df = <<>> THEN 0 ELSE Len(df[1])
Cell(df, r, c) == df[r + 1][c + 1]
Column(df, c) == [i \in 1..Len(df) |-> df[i][c + 1]]

RECURSIVE PickCols(_, _, _)
PickCols(row, keep, j) ==
    IF j > Len(row) THEN <<>>
    ELSE (IF j \in keep THEN <<row[j]>> ELSE <<>>) \o PickCols(row, keep, j + 1)

\* df.dropna(how='all').dropna(axis=1, how='all').reset_index(drop=True)
DropNa(g) ==
    LET rows == SelectSeq(g, LAMBDA row : \E j \in 1..Len(row) : row[j] # NAN)
        keep == { j \in 1..NCols(rows) : \E i \in 1..Len(rows) : rows[i][j] # NAN }
    IN  [i \in 1..Len(rows) |-> PickCols(rows[i], keep, 1)]

\* astype(str) of one cell: NaN prints as "nan"
AsStr(cell) == IF cell = NAN THEN <<"n", "a", "n">> ELSE cell

\* The whole clean-up: drop the empty rows and columns, coerce to str, strip.
Normalize(g) ==
    LET d == DropNa(g)
    IN  [i \in 1..Len(d) |-> [j \in 1..Len(d[i]) |-> Strip(AsStr(d[i][j]))]]

MODEL_MARKER == <<"u578B", "u865F">>   \* 型號

HEADER_SCAN_COLS == 15

\* First loop: the first of the first 15 columns with a cell x such that
\* '型號' in x  (Python's substring test on str).
FirstPassCol(df) ==
    LET hit == { c \in 0..(Min(HEADER_SCAN_COLS, NCols(df)) - 1) :
                    \E r \in 0..(NRows(df) - 1) : Contains(Cell(df, r, c), MODEL_MARKER) }
    IN  IF hit = {} THEN -1 ELSE MinOf(hit)

\* Second loop, run only when the first found nothing: str.contains('型號').
SecondPassCol(df) ==
    LET hit == { c \in 0..(Min(HEADER_SCAN_COLS, NCols(df)) - 1) :
                    \E r \in 0..(NRows(df) - 1) : Contains(Cell(df, r, c), MODEL_MARKER) }
    IN  IF hit = {} THEN -1 ELSE MinOf(hit)

header_col_idx(df) ==
    IF FirstPassCol(df) # -1 THEN FirstPassCol(df) ELSE SecondPassCol(df)

\* The keyword as str.contains reads it, a regular expression: the only
\* keyword with regex syntax is 健保碼(自費碼), whose parentheses form a group
\* around literal text, so it matches the text without the parentheses.
KeywordAsRegexText(kw) == RemoveChar(RemoveChar(kw, "("), ")")

\* find_row_index: per keyword, exact equality, then equality with the
\* spaces removed, then containment in a cell shorter than 20 characters.
RECURSIVE find_row_index(_, _)
find_row_index(header_col_data, keywords) ==
    IF keywords = <<>> THEN -1
    ELSE LET kw == Head(keywords)
             rows == 0..(Len(header_col_data) - 1)
             m1 == { r \in rows : header_col_data[r + 1] = kw }
             m2 == { r \in rows : RemoveChar(header_col_data[r + 1], " ") = kw }
             m3 == { r \in rows : /\ Contains(header_col_data[r + 1], KeywordAsRegexText(kw))
                                  /\ Len(header_col_data[r + 1]) < 20 }
         IN  IF m1 # {} THEN MinOf(m1)
             ELSE IF m2 # {} THEN MinOf(m2)
             ELSE IF m3 # {} THEN MinOf(m3)
             ELSE find_row_index(header_col_data, Tail(keywords))

ALIAS_KEYWORDS ==
    << <<"u5BA2", "u6236", "u7C21", "u7A31">>,   \* 客戶簡稱
       <<"u7522", "u54C1", "u540D", "u7A31">>,   \* 產品名稱
       <<"u54C1", "u540D">> >>   \* 品名

NHI_KEYWORDS ==
    << <<"u5065", "u4FDD", "u78BC">>,   \* 健保碼
       <<"u81EA", "u8CBB", "u78BC">>,   \* 自費碼
       <<"u5065", "u4FDD", "u78BC", "(", "u81EA", "u8CBB", "u78BC", ")">> >>   \* 健保碼(自費碼)

PERMIT_KEYWORD == <<"u8A31", "u53EF", "u8B49">>   \* 許可證

\* The four role rows found in the header column (-1: not found).
Roles(df, hdr) ==
    [ idx_model |-> find_row_index(Column(df, hdr), <<MODEL_MARKER>>),
      idx_alias |-> find_row_index(Column(df, hdr), ALIAS_KEYWORDS),
      idx_nhi_code |-> find_row_index(Column(df, hdr), NHI_KEYWORDS),
      idx_permit |-> find_row_index(Column(df, hdr), <<PERMIT_KEYWORD>>) ]

------------------------------------------------------------------------------
(* process_data: the product columns *)

VENDOR_NAMES ==
    { <<"u7950", "u65B0">>,   \* 祐新
      <<"u9280", "u9438">> }   \* 銀鐸

NanText == <<"n", "a", "n">>

\* The product loop's  continue  test on the model cell.
ModelRejected(model_val) ==
    \/ model_val = <<>>
    \/ LowerStr(model_val) = NanText
    \/ \E v \in VENDOR_NAMES : Contains(model_val, v)
    \/ Len(model_val) > 50

RoleVal(df, idx, c) == IF idx # -1 THEN Cell(df, idx, c) ELSE <<>>

SearchTextNotLowered(model_val, alias_val, nhi_val, permit_val) ==
    model_val \o <<" ">> \o AlnumOnly(model_val) \o <<" ">> \o alias_val
        \o <<" ">> \o nhi_val \o <<" ">> \o permit_val

\* f"{model_val} {model_clean} {alias_val} {nhi_val} {permit_val}".lower()
full_search_text(model_val, alias_val, nhi_val, permit_val) ==
    LowerStr(model_val \o <<" ">> \o AlnumOnly(model_val) \o <<" ">> \o alias_val
                 \o <<" ">> \o nhi_val \o <<" ">> \o permit_val)

\* One entry of the products dict (with its key, the column number).
\* Field names: model is 型號, product_name 產品名稱, nhi_code 健保碼,
\* search_string 搜尋用字串.
ProductInfo(df, roles, c) ==
    LET model_val == Cell(df, roles.idx_model, c)
        alias_val == RoleVal(df, roles.idx_alias, c)
        nhi_val == RoleVal(df, roles.idx_nhi_code, c)
        permit_val == RoleVal(df, roles.idx_permit, c)
    IN  [ col |-> c,
          model |-> model_val,
          product_name |-> alias_val,
          nhi_code |-> nhi_val,
          search_string |-> full_search_text(model_val, alias_val, nhi_val, permit_val) ]

\* The products dict as the list of its entries in insertion (column) order.
RECURSIVE ProductsFrom(_, _, _)
ProductsFrom(df, roles, c) ==
    IF c >= NCols(df) THEN <<>>
    ELSE (IF ModelRejected(Cell(df, roles.idx_model, c))
          THEN <<>>
          ELSE <<ProductInfo(df, roles, c)>>) \o ProductsFrom(df, roles, c + 1)

Products(df, hdr, roles) == ProductsFrom(df, roles, hdr + 1)

------------------------------------------------------------------------------
(* process_data: the hospital rows and the cells *)

EXCLUDE_KEYS ==
    { <<"u6548", "u671F">>,   \* 效期
      <<"Q", "S", "D">>,   \* QSD
      <<"u7522", "u5730">>,   \* 產地
      <<"C", "o", "d", "e">>,   \* Code
      <<"L", "i", "s", "t", "i", "n", "g">>,   \* Listing
      <<"N", "o", "n", "e">>,   \* None
      <<"H", "o", "s", "p", "i", "t", "a", "l">>,   \* Hospital
      <<"s", "o", "u", "r", "c", "e">>,   \* source
      <<"u5099", "u8A3B">>,   \* 備註
      <<"u5065", "u4FDD", "u50F9">>,   \* 健保價
      <<"u8A31", "u53EF", "u8B49">> }   \* 許可證

EXCLUDE_SPEC ==
    { <<"u8B70", "u50F9">>,   \* 議價
      <<"u751F", "u6548">>,   \* 生效
      <<"u767C", "u7968">>,   \* 發票
      <<"u7A05">>,   \* 稅
      <<"u6298", "u8B93">>,   \* 折讓
      <<"u8D08">>,   \* 贈
      <<"u55AE">>,   \* 單
      <<"u8A02", "u55AE">>,   \* 訂單
      <<"u901A", "u77E5">>,   \* 通知
      <<"u5065", "u4FDD">>,   \* 健保
      <<"u95DC", "u78BC">>,   \* 關碼
      <<"u505C", "u7528">>,   \* 停用
      <<"u7F3A", "u8CA8">>,   \* 缺貨
      <<"u53D6", "u4EE3">>,   \* 取代
      <<"u6025", "u63A1">>,   \* 急採
      <<"u6536", "u8CBB">>,   \* 收費
      <<"u6708">>,   \* 月
      <<"u5E74">>,   \* 年
      <<"u65E5">>,   \* 日
      <<"/">> }   \* /

SPECIAL_MARKERS ==
    { <<"u53F0", "u5357", "u5E02", "u7ACB">>,   \* 台南市立
      <<"u79C0", "u50B3">> }   \* 秀傳

\* The is_valid loop over ALL_VALID_HOSPITALS.
IsValidHospital(hospital_name) ==
    \E i \in 1..Len(ALL_VALID_HOSPITALS) :
        \/ ALL_VALID_HOSPITALS[i] = hospital_name
        \/ (Len(ALL_VALID_HOSPITALS[i]) > 1 /\ Contains(hospital_name, ALL_VALID_HOSPITALS[i]))

\* The three  continue  tests on a row and the validity test: is row r a
\* hospital row whose cells are read?
IsHospitalRow(df, hdr, roles, r) ==
    LET row_header == Cell(df, r, hdr)
        known_indices == { roles.idx_model, roles.idx_alias,
                           roles.idx_nhi_code, roles.idx_permit } \ {-1}
    IN  /\ r \notin known_indices
        /\ row_header # <<>>
        /\ LowerStr(row_header) # NanText
        /\ ~ \E k \in EXCLUDE_KEYS : Contains(row_header, k)
        /\ IsValidHospital(Strip(row_header))

SpaceChars == {" ", "\t", "\n", "\r"}
PriceChars == Digits \cup {","}
\* [A-Za-z0-9\-\.\_]
CodeChars == UpperLetters \cup LowerLetters \cup Digits \cup {"-", ".", "_"}

\* The end of the longest run of characters of `class` starting at j (the
\* position after the run): a greedy  [class]*  started at j.
RunEnd(s, j, class) ==
    LET stops == { k \in j..Len(s) : s[k] \notin class }
    IN  IF stops = {} THEN Len(s) + 1 ELSE MinOf(stops)

\* re.findall(r'\$\s*([\d,]+)', s): the captured amounts, left to right.
RECURSIVE PriceScan(_, _)
PriceScan(s, i) ==
    IF i > Len(s) THEN <<>>
    ELSE IF s[i] # "$" THEN PriceScan(s, i + 1)
    ELSE LET j == RunEnd(s, i + 1, SpaceChars)
             k == RunEnd(s, j, PriceChars)
         IN  IF k > j THEN <<SubSeq(s, j, k - 1)>> \o PriceScan(s, k)
             ELSE PriceScan(s, i + 1)

price_match(s) == PriceScan(s, 1)

\* re.findall(pattern_with_spec, s) with
\*   pattern_with_spec = (#\s*[A-Za-z0-9\-\.\_]+)(?:\s*[\n\r]*\(([^)]+)\))?
\* The code run is greedy and the optional group is tried once, after the
\* longest code: it needs a "(" after the white space, at least one character
\* other than ")" and then a ")".  An unmatched group is the empty string.
RECURSIVE CodeScan(_, _)
CodeScan(s, i) ==
    IF i > Len(s) THEN <<>>
    ELSE IF s[i] # "#" THEN CodeScan(s, i + 1)
    ELSE LET j1 == RunEnd(s, i + 1, SpaceChars)
             j2 == RunEnd(s, j1, CodeChars)
             k1 == RunEnd(s, j2, SpaceChars)
             closes == { m \in (k1 + 1)..Len(s) : s[m] = ")" }
             hasSpec == /\ k1 <= Len(s)
                        /\ s[k1] = "("
                        /\ closes # {}
                        /\ MinOf(closes) > k1 + 1
         IN  IF j2 = j1 THEN CodeScan(s, i + 1)
             ELSE IF hasSpec
                  THEN <<[code_raw |-> SubSeq(s, i, j2 - 1),
                          spec |-> SubSeq(s, k1 + 1, MinOf(closes) - 1)]>>
                       \o CodeScan(s, MinOf(closes) + 1)
                  ELSE <<[code_raw |-> SubSeq(s, i, j2 - 1), spec |-> <<>>]>>
                       \o CodeScan(s, j2)

all_matches(s) == CodeScan(s, 1)

\* code_raw.replace('#', '').strip()
clean_code(code_raw) == Strip(RemoveChar(code_raw, "#"))

\* Field names: hospital is 醫院名稱, internal_code 院內碼, billing_code 批價碼,
\* price 價格, raw_note 原始備註 (the others as in ProductInfo).
base_item(hospital_name, p_info, cell_content) ==
    [ hospital |-> hospital_name,
      model |-> p_info.model,
      product_name |-> p_info.product_name,
      nhi_code |-> p_info.nhi_code,
      internal_code |-> <<>>,
      billing_code |-> <<>>,
      price |-> Join(price_match(cell_content), <<",", " ">>),
      raw_note |-> cell_content,
      search_string |-> p_info.search_string ]

IsSpecialHospital(hospital_name) ==
    \E m \in SPECIAL_MARKERS : Contains(hospital_name, m)

IsHospCode(c) == StartsWith(UpperStr(c), <<"B">>)
IsModelCode(c) == ~IsHospCode(c) /\ IsDigit(c[1])

\* A variant of the special branch in which the parenthesized spec, not a
\* digit-led code, supplies the model update.
SpecialItemSpecAsModel(base, matches) ==
    LET codes == [i \in 1..Len(matches) |-> clean_code(matches[i].code_raw)]
        hosp_codes == SelectSeq(codes, IsHospCode)
        bill_codes == SelectSeq(codes, LAMBDA c : ~IsHospCode(c))
        specs == SelectSeq([i \in 1..Len(matches) |-> Strip(matches[i].spec)],
                           LAMBDA t : t # <<>>)
        new_item == [base EXCEPT !.internal_code = Join(hosp_codes, <<",", " ">>),
                                 !.billing_code = Join(bill_codes, <<",", " ">>)]
    IN  IF specs = <<>> THEN new_item
        ELSE [new_item EXCEPT !.model = specs[Len(specs)],
                              !.search_string = @ \o <<" ">> \o specs[Len(specs)]]

\* The special branch (台南市立 / 秀傳): one record for the whole cell.  The
\* spec of each pair is not read.  With at least one match one of the three
\* buckets is non-empty, so new_item is the record appended.
SpecialItem(base, matches) ==
    LET codes == [i \in 1..Len(matches) |-> clean_code(matches[i].code_raw)]
        hosp_codes == SelectSeq(codes, IsHospCode)
        model_codes == SelectSeq(codes, IsModelCode)
        bill_codes == SelectSeq(codes, LAMBDA c : ~IsHospCode(c) /\ ~IsModelCode(c))
        new_item == [base EXCEPT !.internal_code = Join(hosp_codes, <<",", " ">>),
                                 !.billing_code = Join(bill_codes, <<",", " ">>)]
    IN  IF model_codes = <<>> THEN new_item
        ELSE [new_item EXCEPT !.model = model_codes[Len(model_codes)],
                              !.search_string = @ \o <<" ">> \o model_codes[Len(model_codes)]]

\* Is the stripped spec taken as a model override?
SpecAccepted(spec_text) ==
    /\ ~ \E k \in EXCLUDE_SPEC : Contains(spec_text, k)
    /\ Len(spec_text) < 50

\* The general branch for one (code_raw, spec_text) pair.  spec_text.split()[0]
\* raises IndexError when the stripped spec is empty (a spec of white space).
GeneralItem(base, m) ==
    LET coded == [base EXCEPT !.internal_code = clean_code(m.code_raw)]
        spec_text == Strip(m.spec)
    IN  IF m.spec = <<>> \/ ~SpecAccepted(spec_text)
        THEN [raised |-> FALSE, item |-> coded]
        ELSE IF Split(spec_text) = <<>>
             THEN [raised |-> TRUE, item |-> coded]
             ELSE [raised |-> FALSE,
                   item |-> [coded EXCEPT !.model = Split(spec_text)[1],
                                          !.search_string =
                                              @ \o <<" ">> \o LowerStr(Split(spec_text)[1])]]

\* The records one cell appends to processed_list, and whether reading the
\* cell raised.
CellItems(hospital_name, p_info, cell_content) ==
    LET base == base_item(hospital_name, p_info, cell_content)
        matches == all_matches(cell_content)
        general == [i \in 1..Len(matches) |-> GeneralItem(base, matches[i])]
    IN  IF ~(cell_content # <<>> /\ LowerStr(cell_content) # NanText /\ Len(cell_content) > 1)
        THEN [raised |-> FALSE, items |-> <<>>]
        ELSE IF matches = <<>>
        THEN [raised |-> FALSE, items |-> <<base>>]
        ELSE IF IsSpecialHospital(hospital_name)
        THEN [raised |-> FALSE, items |-> <<SpecialItem(base, matches)>>]
        ELSE [raised |-> \E i \in 1..Len(general) : general[i].raised,
              items |-> [i \in 1..Len(general) |-> general[i].item]]

\* All cells of the hospital rows, row by row and product by product.
RowCells(df, hdr, products, r) ==
    [k \in 1..Len(products) |->
        CellItems(Strip(Cell(df, r, hdr)), products[k], Cell(df, r, products[k].col))]

RECURSIVE CellSeq(_, _, _, _, _)
CellSeq(df, hdr, roles, products, r) ==
    IF r >= NRows(df) THEN <<>>
    ELSE (IF IsHospitalRow(df, hdr, roles, r) THEN RowCells(df, hdr, products, r) ELSE <<>>)
         \o CellSeq(df, hdr, roles, products, r + 1)

None == "None"
NoFrame == [kind |-> "None"]

\* pd.DataFrame(processed_list): a frame built from an empty list has no
\* columns at all.
DataFrame(processed_list) ==
    [kind |-> "DataFrame", has_columns |-> processed_list # <<>>, rows |-> processed_list]

\* The error messages returned with no frame:
\*   "NoHeaderColumn"  錯誤：無法偵測標題欄 (找不到『型號』)。
\*   "NoModelRow"      錯誤：找不到『型號』列。
\*   "Exception"       處理錯誤: <the exception text>
process_data(g) ==
    LET df == Normalize(g)
        hdr == header_col_idx(df)
        roles == Roles(df, hdr)
    IN  IF hdr = -1 THEN [df |-> NoFrame, error |-> "NoHeaderColumn"]
        ELSE IF roles.idx_model = -1 THEN [df |-> NoFrame, error |-> "NoModelRow"]
        ELSE LET cells == CellSeq(df, hdr, roles, Products(df, hdr, roles), 0)
             IN  IF \E i \in 1..Len(cells) : cells[i].raised
                 THEN [df |-> NoFrame, error |-> "Exception"]
                 ELSE [df |-> DataFrame(Concat([i \in 1..Len(cells) |-> cells[i].items])),
                       error |-> None]

------------------------------------------------------------------------------
(* main: the stored record set and the query *)

\* str.contains(pat, case=False) compiles pat as a regular expression.  The
\* patterns modelled are those over literal characters and the five
\* characters ( [ * + \ : without ")" and "]" a "(" or "[" is never closed,
\* a quantifier needs something before it that is not a quantifier, and a
\* "\" needs a character after it (which it then makes literal).
RECURSIVE ReErrorFrom(_, _, _)
ReErrorFrom(pat, i, prev) ==
    IF i > Len(pat) THEN FALSE
    ELSE IF pat[i] = "\\" THEN (IF i = Len(pat) THEN TRUE ELSE ReErrorFrom(pat, i + 2, "atom"))
    ELSE IF pat[i] \in {"(", "["} THEN TRUE
    ELSE IF pat[i] \in {"*", "+"}
         THEN (IF prev # "atom" THEN TRUE ELSE ReErrorFrom(pat, i + 1, "quantifier"))
    ELSE ReErrorFrom(pat, i + 1, "atom")

\* re.compile(pat) raises re.error
ReError(pat) == ReErrorFrom(pat, 1, "start")

\* The compiled pattern: its atoms (a literal character each, compared
\* without case) with their quantifier ("1": exactly once).
RECURSIVE ReAtoms(_, _)
ReAtoms(pat, i) ==
    IF i > Len(pat) THEN <<>>
    ELSE LET esc == pat[i] = "\\"
             n == IF esc THEN i + 2 ELSE i + 1
             q == IF n <= Len(pat) /\ pat[n] \in {"*", "+"} THEN pat[n] ELSE "1"
         IN  <<[ch |-> Lower(IF esc THEN pat[i + 1] ELSE pat[i]), q |-> q]>>
             \o ReAtoms(pat, IF q = "1" THEN n ELSE n + 1)

RECURSIVE ReMatchAt(_, _, _, _)
ReMatchAt(atoms, k, s, i) ==
    IF k > Len(atoms) THEN TRUE
    ELSE LET here == i <= Len(s) /\ Lower(s[i]) = atoms[k].ch
         IN  IF atoms[k].q = "1" THEN here /\ ReMatchAt(atoms, k + 1, s, i + 1)
             ELSE IF atoms[k].q = "*"
                  THEN ReMatchAt(atoms, k + 1, s, i) \/ (here /\ ReMatchAt(atoms, k, s, i + 1))
             ELSE here /\ (ReMatchAt(atoms, k + 1, s, i + 1) \/ ReMatchAt(atoms, k, s, i + 1))

\* One element of  series.str.contains(pat, case=False, na=False)  for a
\* pattern that compiles.
StrContains(s, pat) ==
    \E i \in 1..(Len(s) + 1) : ReMatchAt(ReAtoms(pat, 1), 1, s, i)

RECURSIVE Unique(_)
Unique(seq) ==
    IF seq = <<>> THEN <<>>
    ELSE LET rest == Unique(SubSeq(seq, 1, Len(seq) - 1))
         IN  IF seq[Len(seq)] \in Range(rest) THEN rest ELSE Append(rest, seq[Len(seq)])

AllowListOf(tier) == IF tier = "manager" THEN MANAGER_HOSPITALS ELSE PUBLIC_HOSPITALS
Tier(is_manager) == IF is_manager THEN "manager" ELSE "public"

\* df['醫院名稱'].unique().tolist()
all_db_hospitals(df) == Unique([i \in 1..Len(df.rows) |-> df.rows[i].hospital])

\* display_hosp_list / allowed_list
allowed_list(df, is_manager) ==
    filter_hospitals(all_db_hospitals(df), AllowListOf(Tier(is_manager)))

\* A variant of the hospital stage without the allow-list restriction.
HospitalStageSelectionOnly(rows, allowed, selection) ==
    IF selection # <<>>
    THEN SelectSeq(rows, LAMBDA r : r.hospital \in Range(selection))
    ELSE rows

\* isin(allowed_list), then isin(qry_hosp) when the selection is not empty.
HospitalStage(rows, allowed, selection) ==
    LET visible == SelectSeq(rows, LAMBDA r : r.hospital \in Range(allowed))
    IN  IF selection # <<>>
        THEN SelectSeq(visible, LAMBDA r : r.hospital \in Range(selection))
        ELSE visible

\* The code filter: [raised, rows].
CodeStage(rows, code) ==
    LET k == Strip(code)
    IN  IF code = <<>> THEN [raised |-> FALSE, rows |-> rows]
        ELSE IF ReError(k) THEN [raised |-> TRUE, rows |-> <<>>]
        ELSE [raised |-> FALSE,
              rows |-> SelectSeq(rows, LAMBDA r : \/ StrContains(r.internal_code, k)
                                                  \/ StrContains(r.billing_code, k)
                                                  \/ StrContains(r.raw_note, k))]

\* The keyword filter, one token after the other: [raised, rows].
RECURSIVE KeyFold(_, _)
KeyFold(rows, kws) ==
    IF kws = <<>> THEN [raised |-> FALSE, rows |-> rows]
    ELSE LET k == Head(kws)
             k_clean == AlnumOnly(k)
         IN  IF ReError(k) THEN [raised |-> TRUE, rows |-> <<>>]
             ELSE KeyFold(SelectSeq(rows, LAMBDA r :
                              \/ StrContains(r.search_string, k)
                              \/ (k_clean # <<>> /\ StrContains(r.search_string, k_clean))
                              \/ StrContains(r.raw_note, k)
                              \/ StrContains(r.hospital, k)),
                          Tail(kws))

KeyStage(rows, key) ==
    IF key = <<>> THEN [raised |-> FALSE, rows |-> rows] ELSE KeyFold(rows, Split(key))

\* The main area for loaded data after a search: the rows shown
\* ("results"), the not-found warning, or the exception of a filter.
QueryView(df, is_manager, selection, code, key) ==
    LET h == HospitalStage(df.rows, allowed_list(df, is_manager), selection)
        c == CodeStage(h, code)
        k == KeyStage(c.rows, key)
    IN  IF c.raised \/ k.raised THEN [kind |-> "query_error", rows |-> <<>>]
        ELSE IF k.rows # <<>> THEN [kind |-> "results", rows |-> k.rows]
        ELSE [kind |-> "notfound", rows |-> <<>>]

\* df['醫院名稱'] on the loaded frame: KeyError when the frame has no columns.
SidebarRaises(df) == df # NoFrame /\ ~df.has_columns

\* What one run of main shows:
\*   "locked"         the pass-code page (check_password returned False)
\*   "sidebar_error"  KeyError in the sidebar; nothing below it is drawn
\*   "nodata"         the upload-first warning
\*   "prompt"         the search hint
\*   and the three outcomes of QueryView.
Page(is_logged_in, df, searched, is_manager, selection, code, key) ==
    IF ~is_logged_in THEN [kind |-> "locked", rows |-> <<>>]
    ELSE IF SidebarRaises(df) THEN [kind |-> "sidebar_error", rows |-> <<>>]
    ELSE IF df = NoFrame THEN [kind |-> "nodata", rows |-> <<>>]
    ELSE IF ~searched THEN [kind |-> "prompt", rows |-> <<>>]
    ELSE QueryView(df, is_manager, selection, code, key)

NoDb == [kind |-> "None"]

\* A variant of the upload handler that stores whatever process_data returned.
StoreAlways(old, result, update_time) ==
    [kind |-> "dict", df |-> result.df, updated_at |-> update_time]

\* The content of DB_FILE after the upload handler: replaced when
\* process_data returned a frame, untouched otherwise.
StoreAfterUpload(old, result, update_time) ==
    IF result.df # NoFrame
    THEN [kind |-> "dict", df |-> result.df, updated_at |-> update_time]
    ELSE old

\* get_data() and the top of main: session data and last_updated ("" is 0).
LoadedData(store) == IF store.kind = "dict" THEN store.df ELSE NoFrame
LoadedStamp(store) == IF store.kind = "dict" THEN store.updated_at ELSE 0

------------------------------------------------------------------------------
(* The specifications: each one drives one part of the program and leaves   *)
(* the variables of the other parts at rest.                                *)

\* All sequences over S of length at most n.
RECURSIVE SeqsUpTo(_, _)
SeqsUpTo(S, n) ==
    IF n = 0 THEN { <<>> }
    ELSE LET shorter == SeqsUpTo(S, n - 1)
         IN  shorter \cup { Append(q, x) : q \in { r \in shorter : Len(r) = n - 1 }, x \in S }

\* process_data has not returned yet.
Pending == [df |-> NoFrame, error |-> "pending"]

PdIdle ==
    /\ pd_grid = <<>>
    /\ pd_out = Pending
    /\ pd_locals = [header_col_idx |-> -1, products |-> <<>>]

\* The page before anybody opened it.
UiIdle ==
    /\ logged_in = FALSE
    /\ db = NoDb
    /\ clock = 1
    /\ data = NoFrame
    /\ last_updated = 0
    /\ is_manager_mode = FALSE
    /\ has_searched = FALSE
    /\ qry_hosp = <<>>
    /\ qry_code = <<>>
    /\ qry_key = <<>>
    /\ uploaded = <<>>
    /\ notice = "none"
    /\ view = [kind |-> "locked", rows |-> <<>>]

FhIdle ==
    /\ fh_labels = <<>>
    /\ fh_tier = "public"
    /\ fh_out = None
    /\ fh_first = None
    /\ fh_done = {}

------------------------------------------------------------------------------
(* SpecFilter: filter_hospitals called on lists of observed labels            *)
(* (main, lines 356-361 and 457-461), then called again on a reordering of   *)
(* the list, on the list with a label repeated, and on its own result.       *)

MaxLabels == 3

FhLabelPool ==
    { <<"u6210", "u5927">>,   \* 成大
      <<"u6210", "u5927", "u91AB", "u9662">>,   \* 成大醫院
      <<"u8F14", "u5927">>,   \* 輔大
      <<"u570B", "u7ACB", "u967D", "u660E">>,   \* 國立陽明
      <<"u967D", "u660E", "u4EA4", "u901A", "u5927", "u5B78">>,   \* 陽明交通大學
      <<"u967D", "u660E", "u5927", "u5B78", "u806F", "u91AB">>,   \* 陽明大學聯醫
      <<"u570B", "u7ACB", "u967D", "u660E", "u5927", "u5B78", "u806F", "u91AB">>,   \* 國立陽明大學聯醫
      <<"u5609", "u7FA9", "u967D", "u660E">>,   \* 嘉義陽明
      <<"u9577", "u5B89", "u91AB", "u9662">> }   \* 長安醫院

FhInit ==
    /\ fh_labels \in SeqsUpTo(FhLabelPool, MaxLabels)
    /\ fh_tier \in {"public", "manager"}
    /\ fh_out = None
    /\ fh_first = None
    /\ fh_done = {}
    /\ PdIdle
    /\ UiIdle

\* The first call.
FhCall ==
    /\ fh_out = None
    /\ fh_out' = filter_hospitals(fh_labels, AllowListOf(fh_tier))
    /\ fh_first' = fh_out'
    /\ UNCHANGED <<fh_labels, fh_tier, fh_done>>
    /\ UNCHANGED <<pdVars, uiVars>>

\* A call on the same labels with two of them exchanged.
FhPermute ==
    /\ fh_out # None
    /\ \E i, j \in 1..Len(fh_labels) :
          /\ i < j
          /\ fh_labels[i] # fh_labels[j]
          /\ fh_labels' = [fh_labels EXCEPT ![i] = fh_labels[j], ![j] = fh_labels[i]]
    /\ fh_out' = filter_hospitals(fh_labels', AllowListOf(fh_tier))
    /\ fh_done' = fh_done \cup {"permute"}
    /\ UNCHANGED <<fh_tier, fh_first>>
    /\ UNCHANGED <<pdVars, uiVars>>

\* A call on the same labels with one of them repeated.
FhDuplicate ==
    /\ fh_out # None
    /\ Len(fh_labels) < MaxLabels
    /\ \E i \in 1..Len(fh_labels) : fh_labels' = Append(fh_labels, fh_labels[i])
    /\ fh_out' = filter_hospitals(fh_labels', AllowListOf(fh_tier))
    /\ fh_done' = fh_done \cup {"duplicate"}
    /\ UNCHANGED <<fh_tier, fh_first>>
    /\ UNCHANGED <<pdVars, uiVars>>

\* A call on the result of the previous call.
FhReapply ==
    /\ fh_out # None
    /\ fh_labels' = fh_out
    /\ fh_out' = filter_hospitals(fh_labels', AllowListOf(fh_tier))
    /\ fh_done' = fh_done \cup {"reapply"}
    /\ UNCHANGED <<fh_tier, fh_first>>
    /\ UNCHANGED <<pdVars, uiVars>>

FhNext == FhCall \/ FhPermute \/ FhDuplicate \/ FhReapply

SpecFilter == FhInit /\ [][FhNext]_vars

\* C6: with the manager allow-list (which holds the alias entry 國立陽明), a
\* label that contains one of the three alias spellings is in the output if
\* and only if it does not contain the joint-clinic marker 聯醫; in
\* particular no other entry lets a label with both into the output.
C6_AliasExcludedIffJointClinic ==
    (fh_out # None /\ fh_tier = "manager") =>
        \A h \in Range(fh_labels) :
            HasAliasSpelling(h) =>
                (h \in Range(fh_out) <=> ~Contains(h, JOINT_CLINIC))

\* C8: for a fixed allow-list every call on a reordering of the labels, on
\* the labels with repetitions, or on the previous result returns the list
\* the first call returned.
C8_FilterOrderIndependentIdempotent ==
    fh_out # None => fh_out = fh_first

C8_Witness ==
    /\ fh_out # None
    /\ fh_done = {"permute", "duplicate", "reapply"}
    /\ Len(fh_out) >= 2
    /\ Len(fh_labels) > Len(fh_out)
    /\ \E i, j \in 1..Len(fh_labels) : i < j /\ StrLess(fh_labels[j], fh_labels[i])

------------------------------------------------------------------------------
(* SpecCells, SpecHeader, SpecProducts: process_data called once on a grid. *)
(* The grids are of three families: one hospital row and one product column *)
(* with a composed cell; a wide grid with the marker placed in chosen       *)
(* columns; one product column with chosen model text and role rows.        *)

MaxSegs == 3
GridWidth == 17

\* A cell as a spreadsheet reader delivers it: an empty cell is NaN.
Raw(text) == IF text = <<>> THEN NAN ELSE text

Txt_AB12 == <<"A", "B", "-", "1", "2">>

CellSegments ==
    { <<"#", "B", "1", "0", "0">>,   \* #B100
      <<"#", "X", "2", "0", "0">>,   \* #X200
      <<"#", "5", "2", "0", "0">>,   \* #5200
      <<"#", " ", "a", ".", "1">>,   \* # a.1
      <<"(", "5", "2", "0", "0", ")">>,   \* (5200)
      <<"(", " ", ")">>,   \* ( )
      <<"(", "u8B70", "u50F9", ")">>,   \* (議價)
      <<"$", "1", ",", "2", "0", "0">>,   \* $1,200
      <<"(", "A", "b", " ", "9", ")">> }   \* (Ab 9)

CellSeparators == { <<>>, <<" ">> }

CellHospitals ==
    { <<"u4E2D", "u570B", "u5B89", "u5357">>,   \* 中國安南
      <<"u53F0", "u5357", "u5E02", "u7ACB", "(", "u79C0", "u50B3", ")">>,   \* 台南市立(秀傳)
      <<"u6210", "u5927", "(", "u79C0", "u50B3", ")">> }   \* 成大(秀傳)

CellGrid(hospital, cell) ==
    << <<MODEL_MARKER, Txt_AB12>>,
       <<hospital, Raw(cell)>> >>

CellGrids ==
    { CellGrid(h, Join(segs, sep)) :
        h \in CellHospitals, segs \in SeqsUpTo(CellSegments, MaxSegs), sep \in CellSeparators }

Txt_Filler == <<"M", "1">>
Txt_Embedded == <<"u7522", "u54C1", "u578B", "u865F", "u8868">>   \* 產品型號表
Txt_Hospital == <<"u6210", "u5927">>   \* 成大

\* Row 0 holds the exact marker in column pe and a cell with the marker
\* inside longer text in column pc (-1: nowhere); row 1 holds a hospital
\* label in every column.  With lead, an all-empty column precedes them.
HeaderGrid(pe, pc, lead) ==
    LET top == [j \in 1..GridWidth |->
                   IF j - 1 = pe THEN MODEL_MARKER
                   ELSE IF j - 1 = pc THEN Txt_Embedded ELSE Txt_Filler]
        low == [j \in 1..GridWidth |-> Txt_Hospital]
    IN  IF lead THEN << <<NAN>> \o top, <<NAN>> \o low >> ELSE << top, low >>

HeaderGrids ==
    { HeaderGrid(pe, pc, lead) :
        pe \in -1..(GridWidth - 1), pc \in -1..(GridWidth - 1), lead \in BOOLEAN }

RepeatChar(c, n) == [i \in 1..n |-> c]

ModelTexts ==
    { <<>>,
      <<"n", "a", "n">>,
      <<"N", "a", "N">>,
      Txt_AB12,
      <<"a", "b", " ", "1", "2">>,
      <<"5", "2", "0", "0">>,
      <<"X", "-", "9", "/", "z">>,
      <<"u7950", "u65B0", "X", "1">>,   \* 祐新X1
      <<"X", "u9280", "u9438">>,   \* X銀鐸
      <<"u5C0E", "u7BA1">>,   \* 導管
      RepeatChar("M", 50),
      RepeatChar("M", 51) }

Txt_Alias == <<"S", "t", "e", "n", "t", " ", "A">>
Txt_Nhi == <<"F", "B", "Z", "0", "1">>
Txt_Permit == <<"N", "o", ".", "7">>
Txt_Price == <<"$", "1", "0", "0">>
KW_ALIAS == <<"u54C1", "u540D">>   \* 品名
KW_NHI == <<"u5065", "u4FDD", "u78BC">>   \* 健保碼

\* A role row is present with text, present and empty, or absent.
RoleChoices(text) == { <<"absent">>, <<"empty">>, <<"text">> }
RoleRow(kw, choice, text) ==
    IF choice = <<"absent">> THEN <<>>
    ELSE << <<kw, IF choice = <<"empty">> THEN NAN ELSE text>> >>

ProductGrid(model, a, n, q) ==
    << <<MODEL_MARKER, Raw(model)>> >>
        \o RoleRow(KW_ALIAS, a, Txt_Alias)
        \o RoleRow(KW_NHI, n, Txt_Nhi)
        \o RoleRow(PERMIT_KEYWORD, q, Txt_Permit)
        \o << <<Txt_Hospital, Txt_Price>> >>

ProductGrids ==
    { ProductGrid(m, a, n, q) :
        m \in ModelTexts, a \in RoleChoices(Txt_Alias),
        n \in { <<"absent">>, <<"text">> }, q \in { <<"absent">>, <<"text">> } }

\* header_col_idx and products as process_data leaves them when it returns.
ProcessLocals(g) ==
    LET df == Normalize(g)
        hdr == header_col_idx(df)
    IN  [ header_col_idx |-> hdr,
          products |-> IF hdr = -1 \/ Roles(df, hdr).idx_model = -1
                       THEN <<>>
                       ELSE Products(df, hdr, Roles(df, hdr)) ]

PdInit(grids) ==
    /\ pd_grid \in grids
    /\ pd_out = Pending
    /\ pd_locals = [header_col_idx |-> -1, products |-> <<>>]
    /\ FhIdle
    /\ UiIdle

PdRun ==
    /\ pd_out = Pending
    /\ pd_out' = process_data(pd_grid)
    /\ pd_locals' = ProcessLocals(pd_grid)
    /\ UNCHANGED pd_grid
    /\ UNCHANGED <<fhVars, uiVars>>

PdNext == PdRun

CellsInit == PdInit(CellGrids)
HeaderInit == PdInit(HeaderGrids)
ProductsInit == PdInit(ProductGrids)

SpecCells == CellsInit /\ [][PdNext]_vars
SpecHeader == HeaderInit /\ [][PdNext]_vars
SpecProducts == ProductsInit /\ [][PdNext]_vars

PdDone == pd_out # Pending

------------------------------------------------------------------------------
(* Claims about the cells (SpecCells) *)

\* The hospital label and the cell text of a one-row, one-column grid, as
\* process_data reads them (after the clean-up).
CellHospital == Cell(Normalize(pd_grid), 1, 0)
CellText == Cell(Normalize(pd_grid), 1, 1)
OutRows == pd_out.df.rows
ColumnModel == pd_locals.products[1].model
ColumnSearch == pd_locals.products[1].search_string

IsGeneralHospital(h) == IsValidHospital(h) /\ ~IsSpecialHospital(h)

Txt_B100 == <<"B", "1", "0", "0">>
Txt_X200 == <<"X", "2", "0", "0">>
Txt_5200 == <<"5", "2", "0", "0">>
Seg_B100 == <<"#", "B", "1", "0", "0">>
Seg_X200 == <<"#", "X", "2", "0", "0">>
Seg_Code5200 == <<"#", "5", "2", "0", "0">>
Seg_Spec5200 == <<"(", "5", "2", "0", "0", ")">>

Perms3(a, b, c) ==
    { <<a, b, c>>, <<a, c, b>>, <<b, a, c>>, <<b, c, a>>, <<c, a, b>>, <<c, b, a>> }

\* The cell holds exactly the three pieces, in some order.
HoldsExactly(cell, a, b, c) ==
    \E segs \in Perms3(a, b, c), sep \in CellSeparators : cell = Join(segs, sep)

OneRecordWith(internal, billing, model) ==
    /\ pd_out.error = None
    /\ Len(OutRows) = 1
    /\ OutRows[1].internal_code = internal
    /\ OutRows[1].billing_code = billing
    /\ OutRows[1].model = model

\* C4 as stated: under a special hospital (台南市立 / 秀傳) a cell holding the
\* codes #B100 and #X200 and the spec (5200) yields exactly one record with
\* internal_code B100, billing_code X200 and model 5200.
C4_SpecOverridesModel ==
    (/\ PdDone
     /\ IsValidHospital(CellHospital) /\ IsSpecialHospital(CellHospital)
     /\ HoldsExactly(CellText, Seg_B100, Seg_X200, Seg_Spec5200))
    => OneRecordWith(Txt_B100, Txt_X200, Txt_5200)

\* C4 as amended: that cell yields exactly one record with internal_code
\* B100 and billing_code X200 whose model is still the product column's
\* model; the model is 5200 when 5200 is given as a code, #5200, instead.
C4_CodeOverridesModel ==
    (/\ PdDone
     /\ IsValidHospital(CellHospital) /\ IsSpecialHospital(CellHospital))
    => /\ HoldsExactly(CellText, Seg_B100, Seg_X200, Seg_Spec5200)
            => OneRecordWith(Txt_B100, Txt_X200, ColumnModel)
       /\ HoldsExactly(CellText, Seg_B100, Seg_X200, Seg_Code5200)
            => OneRecordWith(Txt_B100, Txt_X200, Txt_5200)

C4_Witness ==
    /\ PdDone
    /\ IsValidHospital(CellHospital) /\ IsSpecialHospital(CellHospital)
    /\ CellText = Join(<<Seg_B100, Seg_X200, Seg_Spec5200>>, <<" ">>)
    /\ OneRecordWith(Txt_B100, Txt_X200, Txt_AB12)
    /\ all_matches(CellText)[2].spec = Txt_5200

\* C5: under a general hospital a cell with k >= 1 code matches yields
\* exactly k records, in the order of the codes, all with the hospital, the
\* price and the full cell text, each with its code without "#" as
\* internal_code.
C5_OneRecordPerCode ==
    (/\ PdDone
     /\ IsGeneralHospital(CellHospital)
     /\ Len(all_matches(CellText)) >= 1)
    => /\ pd_out.error = None
       /\ Len(OutRows) = Len(all_matches(CellText))
       /\ \A i \in 1..Len(OutRows) :
             /\ OutRows[i].hospital = CellHospital
             /\ OutRows[i].raw_note = CellText
             /\ OutRows[i].price = OutRows[1].price
             /\ OutRows[i].internal_code =
                    Strip(RemoveChar(all_matches(CellText)[i].code_raw, "#"))

\* C9: under a general hospital every pair with a non-empty spec (white
\* space included) yields its record and no exception ends the extraction;
\* the record's model is the first token of the spec, and the token in lower
\* case is appended to the search string, exactly when the spec has no
\* exclusion keyword and fewer than 50 characters; otherwise model and search
\* string are the product column's.
C9_SpecOverrideNeverRaises ==
    (PdDone /\ IsGeneralHospital(CellHospital))
    => /\ pd_out.error # "Exception"
       /\ pd_out.error = None =>
            \A i \in 1..Len(all_matches(CellText)) :
                LET spec == all_matches(CellText)[i].spec
                    accepted == /\ ~ \E k \in EXCLUDE_SPEC : Contains(spec, k)
                                /\ Len(spec) < 50
                IN  spec # <<>> =>
                      /\ i <= Len(OutRows)
                      /\ IF accepted
                         THEN /\ Split(spec) # <<>>
                              /\ OutRows[i].model = Split(spec)[1]
                              /\ OutRows[i].search_string =
                                     ColumnSearch \o <<" ">> \o LowerStr(Split(spec)[1])
                         ELSE /\ OutRows[i].model = ColumnModel
                              /\ OutRows[i].search_string = ColumnSearch

------------------------------------------------------------------------------
(* Claims about the header column (SpecHeader) *)

ScanCols(df) == 0..(Min(15, NCols(df)) - 1)
ExactCols(df) ==
    { c \in ScanCols(df) : \E r \in 0..(NRows(df) - 1) : Cell(df, r, c) = MODEL_MARKER }
ContainingCols(df) ==
    { c \in ScanCols(df) : \E r \in 0..(NRows(df) - 1) : Contains(Cell(df, r, c), MODEL_MARKER) }

\* C10: when one of the first 15 columns has a cell equal to 型號 the header
\* column is the lowest such column, even if a lower column has a cell that
\* only contains 型號; otherwise it is the lowest column with a containing
\* cell.
C10_ExactMatchFirst ==
    PdDone =>
        LET df == Normalize(pd_grid)
        IN  /\ ExactCols(df) # {} => pd_locals.header_col_idx = MinOf(ExactCols(df))
            /\ (ExactCols(df) = {} /\ ContainingCols(df) # {})
                   => pd_locals.header_col_idx = MinOf(ContainingCols(df))

------------------------------------------------------------------------------
(* Claims about the product columns (SpecProducts) *)

\* C7 as stated: the search string of every accepted product column is
\* non-empty, is all lower case and contains the model text with every
\* character outside [a-zA-Z0-9] removed.
C7_SearchHasStrippedModel ==
    PdDone =>
        \A i \in 1..Len(pd_locals.products) :
            LET p == pd_locals.products[i]
            IN  /\ p.search_string # <<>>
                /\ LowerStr(p.search_string) = p.search_string
                /\ Contains(p.search_string, AlnumOnly(p.model))

\* C7 as amended: ... and contains that stripped model text in lower case.
C7_SearchHasLoweredStrippedModel ==
    PdDone =>
        \A i \in 1..Len(pd_locals.products) :
            LET p == pd_locals.products[i]
            IN  /\ p.search_string # <<>>
                /\ LowerStr(p.search_string) = p.search_string
                /\ Contains(p.search_string, LowerStr(AlnumOnly(p.model)))

C7_Witness ==
    /\ PdDone
    /\ Len(pd_locals.products) = 1
    /\ pd_locals.products[1].model = Txt_AB12
    /\ pd_locals.products[1].product_name = Txt_Alias
    /\ AlnumOnly(pd_locals.products[1].model) # pd_locals.products[1].model
    /\ LowerStr(AlnumOnly(pd_locals.products[1].model)) # AlnumOnly(pd_locals.products[1].model)

------------------------------------------------------------------------------
(* Spec: the page.  Every action is one event of a user together with the   *)
(* runs of main it causes (an event handler that calls st.rerun() is        *)
(* followed by the run that redraws the page).                              *)

MaxClock == 2

SYSTEM_ACCESS_PASSWORD == <<"8", "8", "8">>
MANAGER_PASSWORD == <<"1", "6", "3">>
MAINTENANCE_PASSWORD == <<"1", "9", "7">>
WrongPassword == <<"0", "0", "0">>

H_NCKU == <<"u6210", "u5927">>   \* 成大
H_FuJen == <<"u8F14", "u5927">>   \* 輔大
H_Joint == <<"u570B", "u7ACB", "u967D", "u660E", "u806F", "u91AB">>   \* 國立陽明聯醫
H_Tzuchi == <<"u65B0", "u5E97", "u6148", "u6FDF">>   \* 新店慈濟
H_Unknown == <<"u9577", "u5B89", "u91AB", "u9662">>   \* 長安醫院
H_Annan == <<"u4E2D", "u570B", "u5B89", "u5357">>   \* 中國安南

\* Two products; a public hospital, a manager hospital and the joint clinic.
G_Full ==
    << <<MODEL_MARKER, Txt_AB12, <<"C", "D", "-", "3", "4">>>>,
       <<KW_ALIAS, <<"S", "t", "e", "n", "t">>, <<"W", "i", "r", "e">>>>,
       <<H_NCKU, <<"#", "B", "1", "0", "0", " ", "$", "1", ",", "2", "0", "0">>, NAN>>,
       <<H_FuJen, <<"#", "X", "2", "0", "0">>, <<"#", "C", "7", "(", "5", "2", "0", "0", ")">>>>,
       <<H_Joint, <<"#", "J", "1">>, NAN>> >>

\* A manager hospital only.
G_Manager ==
    << <<MODEL_MARKER, Txt_AB12>>,
       <<H_Tzuchi, <<"#", "M", "1">>>> >>

\* Header column and model row, but no row of a known hospital.
G_Zero ==
    << <<MODEL_MARKER, Txt_AB12>>,
       <<H_Unknown, <<"#", "Z", "9">>>> >>

\* No marker anywhere.
G_NoMarker ==
    << <<<<"u7522", "u54C1">>, Txt_AB12>>,   \* 產品
       <<H_NCKU, <<"#", "B", "1", "0", "0">>>> >>

\* The marker only in the sixteenth column.
G_FarMarker ==
    << [j \in 1..17 |-> IF j = 16 THEN MODEL_MARKER ELSE Txt_Filler],
       [j \in 1..17 |-> IF j = 17 THEN Txt_Price ELSE H_NCKU] >>

\* The marker only inside a sentence of 20 characters.
G_NoModelRow ==
    << <<<<"u672C", "u8868", "u578B", "u865F", "u6B04", "u4F4D", "u4E4B", "u8AAA", "u660E", "u8ACB", "u53C3", "u95B1", "u9644", "u4EF6", "u7B2C", "u4E00", "u4E8C", "u4E09", "u56DB", "u9801">>, Txt_AB12>>,   \* 本表型號欄位之說明請參閱附件第一二三四頁
       <<H_NCKU, <<"#", "B", "1", "0", "0">>>> >>

\* A spec of white space under a general hospital.
G_Raises ==
    << <<MODEL_MARKER, Txt_AB12>>,
       <<H_Annan, <<"#", "A", "1", "(", " ", ")">>>> >>

UploadGrids == { G_Full, G_Manager, G_Zero, G_NoMarker, G_FarMarker, G_NoModelRow, G_Raises }

CodeInputs ==
    { <<>>,
      <<"b", "1", "+">>,
      <<"(">> }

KeyInputs ==
    { <<>>,
      <<"a", "b", "1", "2", " ", "s", "t", "e", "n", "t">>,
      <<"[">> }

\* What the hospital widget can hold: nothing, one of the listed hospitals
\* (single mode), or all of them (multi mode).
HospitalChoices(display_hosp_list) ==
    { <<>>, display_hosp_list } \cup { <<display_hosp_list[i]>> : i \in 1..Len(display_hosp_list) }

\* process_data of each file that can be uploaded.
UploadResults == [g \in UploadGrids |-> process_data(g)]

Init ==
    /\ UiIdle
    /\ FhIdle
    /\ PdIdle

\* Time passes.
Tick ==
    /\ clock < MaxClock
    /\ clock' = clock + 1
    /\ UNCHANGED <<logged_in, db, data, last_updated, is_manager_mode, has_searched,
                   qry_hosp, qry_code, qry_key, uploaded, notice, view>>
    /\ UNCHANGED <<fhVars, pdVars>>

\* check_password: the pass-code page.  A right pass-code logs in and the
\* next run loads the stored data.
Login ==
    /\ ~logged_in
    /\ \E password \in {SYSTEM_ACCESS_PASSWORD, WrongPassword} :
          /\ logged_in' = (password = SYSTEM_ACCESS_PASSWORD)
          /\ data' = IF logged_in' THEN LoadedData(db) ELSE data
          /\ last_updated' = IF logged_in' THEN LoadedStamp(db) ELSE last_updated
    /\ uploaded' = <<>>
    /\ notice' = "none"
    /\ view' = Page(logged_in', data', has_searched, is_manager_mode, qry_hosp, qry_code, qry_key)
    /\ UNCHANGED <<db, clock, is_manager_mode, has_searched, qry_hosp, qry_code, qry_key>>
    /\ UNCHANGED <<fhVars, pdVars>>

\* The manager checkbox ticked and a password typed.
ManagerOn ==
    /\ logged_in
    /\ ~is_manager_mode
    /\ \E m_pwd \in {MANAGER_PASSWORD, WrongPassword} :
          is_manager_mode' = (m_pwd = MANAGER_PASSWORD)
    /\ uploaded' = <<>>
    /\ notice' = "none"
    /\ view' = Page(logged_in, data, has_searched, is_manager_mode', qry_hosp, qry_code, qry_key)
    /\ UNCHANGED <<logged_in, db, clock, data, last_updated, has_searched,
                   qry_hosp, qry_code, qry_key>>
    /\ UNCHANGED <<fhVars, pdVars>>

\* The manager checkbox cleared.
ManagerOff ==
    /\ logged_in
    /\ is_manager_mode
    /\ is_manager_mode' = FALSE
    /\ uploaded' = <<>>
    /\ notice' = "none"
    /\ view' = Page(logged_in, data, has_searched, FALSE, qry_hosp, qry_code, qry_key)
    /\ UNCHANGED <<logged_in, db, clock, data, last_updated, has_searched,
                   qry_hosp, qry_code, qry_key>>
    /\ UNCHANGED <<fhVars, pdVars>>

\* The search form is drawn when data are loaded and the sidebar got that far.
FormDrawn == logged_in /\ data # NoFrame /\ ~SidebarRaises(data)

\* The search button.
Search ==
    /\ FormDrawn
    /\ \E s_hosp \in HospitalChoices(allowed_list(data, is_manager_mode)),
          s_code \in CodeInputs, s_key \in KeyInputs :
          /\ qry_hosp' = s_hosp
          /\ qry_code' = s_code
          /\ qry_key' = s_key
    /\ has_searched' = TRUE
    /\ uploaded' = <<>>
    /\ notice' = "none"
    /\ view' = Page(logged_in, data, TRUE, is_manager_mode, qry_hosp', qry_code', qry_key')
    /\ UNCHANGED <<logged_in, db, clock, data, last_updated, is_manager_mode>>
    /\ UNCHANGED <<fhVars, pdVars>>

\* The clear button.
Clear ==
    /\ FormDrawn
    /\ qry_hosp' = <<>>
    /\ qry_code' = <<>>
    /\ qry_key' = <<>>
    /\ has_searched' = FALSE
    /\ uploaded' = <<>>
    /\ notice' = "none"
    /\ view' = Page(logged_in, data, FALSE, is_manager_mode, <<>>, <<>>, <<>>)
    /\ UNCHANGED <<logged_in, db, clock, data, last_updated, is_manager_mode>>
    /\ UNCHANGED <<fhVars, pdVars>>

\* The maintenance section is drawn after the sidebar's hospital list.
MaintenanceDrawn == logged_in /\ ~SidebarRaises(data)

\* A file uploaded with the maintenance password typed: process_data, then
\* the store and the session are replaced or the error is reported.
Upload ==
    /\ MaintenanceDrawn
    /\ \E password \in {MAINTENANCE_PASSWORD, WrongPassword}, g \in UploadGrids :
          LET result == UploadResults[g]
          IN  /\ password = MAINTENANCE_PASSWORD
              /\ db' = StoreAfterUpload(db, result, clock)
              /\ uploaded' = g
              /\ notice' = IF result.df # NoFrame THEN "success" ELSE result.error
    /\ data' = LoadedData(db')
    /\ last_updated' = LoadedStamp(db')
    /\ view' = Page(logged_in, data', has_searched, is_manager_mode, qry_hosp, qry_code, qry_key)
    /\ UNCHANGED <<logged_in, clock, is_manager_mode, has_searched, qry_hosp, qry_code, qry_key>>
    /\ UNCHANGED <<fhVars, pdVars>>

\* The reset button: DB_FILE removed if it exists.
Reset ==
    /\ MaintenanceDrawn
    /\ db # NoDb
    /\ db' = NoDb
    /\ data' = NoFrame
    /\ last_updated' = 0
    /\ has_searched' = FALSE
    /\ uploaded' = <<>>
    /\ notice' = "none"
    /\ view' = Page(logged_in, NoFrame, FALSE, is_manager_mode, qry_hosp, qry_code, qry_key)
    /\ UNCHANGED <<logged_in, clock, is_manager_mode, qry_hosp, qry_code, qry_key>>
    /\ UNCHANGED <<fhVars, pdVars>>

Next ==
    \/ Tick
    \/ Login
    \/ ManagerOn
    \/ ManagerOff
    \/ Search
    \/ Clear
    \/ Upload
    \/ Reset

Spec == Init /\ [][Next]_vars

\* No cell of the first 15 columns of the cleaned grid contains the marker.
LacksMarker(g) ==
    LET df == Normalize(g)
    IN  \A r \in 0..(NRows(df) - 1) :
          \A c \in 0..(Min(NCols(df), 15) - 1) :
             ~Contains(AsStr(Cell(df, r, c)), MODEL_MARKER)

\* C1: an upload of a grid without the marker in its first 15 columns is
\* reported with the no-header-column error, and an upload whose extraction
\* failed (no header column, no model row, or a caught exception) leaves the
\* stored record set, its timestamp and the loaded data as they were.
C1_FailedUploadKeepsStore ==
    [][ uploaded' # <<>> =>
          /\ LacksMarker(uploaded') => notice' = "NoHeaderColumn"
          /\ notice' # "success" =>
                /\ notice' \in {"NoHeaderColumn", "NoModelRow", "Exception"}
                /\ db' = db
                /\ last_updated' = last_updated
                /\ data' = data ]_uiVars

\* A grid without the marker was uploaded over an existing store.
C1_Witness ==
    /\ uploaded # <<>>
    /\ LacksMarker(uploaded)
    /\ notice = "NoHeaderColumn"
    /\ db # NoDb
    /\ data # NoFrame
    /\ data = db.df

\* The hospitals the current tier may see among those of the loaded data.
VisibleNow ==
    Range(filter_hospitals(all_db_hospitals(data), AllowListOf(Tier(is_manager_mode))))

\* C2: every record shown has a hospital that filter_hospitals accepts for
\* the allow-list of the current tier, and a stored selection of one hospital
\* the current tier does not see shows no record at all.
C2_ShownRowsVisible ==
    /\ \A i \in 1..Len(view.rows) : view.rows[i].hospital \in VisibleNow
    /\ ( /\ view.kind \in {"results", "notfound", "query_error"}
         /\ Len(qry_hosp) = 1
         /\ qry_hosp[1] \notin VisibleNow )
       => view.kind # "results" /\ view.rows = <<>>

\* Manager mode is off, the selection still names a manager hospital that
\* some stored record has, and the page shows the not-found warning.
C2_Witness ==
    /\ ~is_manager_mode
    /\ has_searched
    /\ data # NoFrame
    /\ Len(qry_hosp) = 1
    /\ qry_hosp[1] \notin VisibleNow
    /\ \E i \in 1..Len(data.rows) : data.rows[i].hospital = qry_hosp[1]
    /\ qry_code = <<>>
    /\ qry_key = <<>>
    /\ view.kind = "notfound"

\* C3: with a record set stored by a successful extraction, a run of main
\* raises nothing: after a search it shows records or the not-found warning.
C3_QueryNeverErrors ==
    (logged_in /\ data # NoFrame) =>
        /\ view.kind # "sidebar_error"
        /\ has_searched => view.kind \in {"results", "notfound"}

\* The same with the frame of zero records and the patterns that do not
\* compile set aside.
C3_ErrorsOnlyFromPatterns ==
    (logged_in /\ data # NoFrame /\ data.rows # <<>> /\ has_searched
        /\ ~ReError(Strip(qry_code))
        /\ \A i \in 1..Len(Split(qry_key)) : ~ReError(Split(qry_key)[i]))
    => view.kind \in {"results", "notfound"}

\* C11: for a logged-in user every run of main gets as far as the
\* maintenance section, so the reset and upload controls stay reachable; in
\* particular after a successful extraction of zero records.
C11_MaintenanceAlwaysDrawn ==
    logged_in => MaintenanceDrawn

\* The same with the stored frames of zero records set aside.
C11_OnlyZeroRecordsBlock ==
    (logged_in /\ ~MaintenanceDrawn) =>
        /\ db # NoDb
        /\ db.df.rows = <<>>
        /\ view.kind = "sidebar_error"

\* The hospitals of the loaded records that filter_hospitals accepts for
\* the allow-list of the given tier.
VisibleIn(tier) ==
    Range(filter_hospitals(all_db_hospitals(data), AllowListOf(tier)))

\* C12: every stored record has a hospital that filter_hospitals accepts
\* for PUBLIC_HOSPITALS or for MANAGER_HOSPITALS.
C12_EveryRecordVisibleInSomeTier ==
    (data # NoFrame) =>
        \A i \in 1..Len(data.rows) :
            data.rows[i].hospital \in VisibleIn("public") \cup VisibleIn("manager")

\* The same for the records whose hospital does not carry the joint-clinic
\* marker.
C12_HiddenOnlyJointClinic ==
    (data # NoFrame) =>
        \A i \in 1..Len(data.rows) :
            \/ data.rows[i].hospital \in VisibleIn("public") \cup VisibleIn("manager")
            \/ /\ Contains(data.rows[i].hospital, JOINT_CLINIC)
               /\ IsValidHospital(data.rows[i].hospital)

====
